---- MODULE Spec2Model ----
(***************************************************************************)
(* Resource identity map and relationship graph builder of sw360python     *)
(* (sw360/sw360_objects.py): SW360Resource and its subclasses Release,     *)
(* Attachment, Component and Project, the class-wide registry              *)
(* all_resources, the constructors, the JSON decoders and the package URL  *)
(* detection in externalIds; constructor calls made by concurrent threads; *)
(* the constructor call printed by __repr__; and, of the REST client       *)
(* (sw360/sw360_api.py), the session and the update of an external id.     *)
(*                                                                         *)
(* An instance is a handle 1..Len(objs).  A call that raises keeps every   *)
(* assignment made before the raise, as in Python.                         *)
(***************************************************************************)
EXTENDS Integers, Sequences, FiniteSets, TLC

\* ----------------------------------------------------------------- bounds
\* Instances that may exist at once.
MaxObj == 3
\* Calls the application makes in one run.
MaxCalls == 3

\* ------------------------------------------------------------- universes
Classes == {"Release", "Component", "Project"}
\* Every subclass of SW360Resource.
AllClasses == Classes \cup {"Attachment"}
Ids == {"a", "b"}

\* Python's None as an id value, and as an object reference.
NoneId == "<None>"
NoneRef == 0

Keys == Classes \X Ids
EmptyMap == [x \in {} |-> NoneRef]
Put(m, k, v) == [x \in (DOMAIN m) \cup {k} |-> IF x = k THEN v ELSE m[x]]
Range(m) == {m[x] : x \in DOMAIN m}

\* Merge as a bug would have it: the new users replace the mapping.
Merge_replace(m, users) == users

\* Overlay of users onto m: "for k, v in users.items(): m[k] = v".
Merge(m, users) ==
    [x \in (DOMAIN m) \cup (DOMAIN users) |-> IF x \in DOMAIN users THEN users[x] ELSE m[x]]

\* bool(x) of an id value: None and the empty string are falsy.
Truthy(v) == v \notin {NoneId, ""}

\* ---------------------------------------------------------------- payloads
\* An href is the list of its "/"-separated parts; split("/")[-1] is the last.
Href(kind, i) == <<"https:", "", "sw360", "api", kind, i>>
TrailingSegment(href) == href[Len(href)]

NoHref == <<>>
\* One (key, value) pair of a JSON object, in the order the object lists them.
\* k: "id" | "self" | "component" | "releases" | "projects"
\* ("self" and "component" are sub-keys of _links, "releases" and "projects"
\* the sw360:releases / sw360:projects sub-keys of _embedded).
IdItem(i) == [k |-> "id", id |-> i, href |-> NoHref, list |-> <<>>]
SelfItem(kind, i) == [k |-> "self", id |-> "", href |-> Href(kind, i), list |-> <<>>]
ComponentItem(i) == [k |-> "component", id |-> "", href |-> Href("components", i), list |-> <<>>]
ListItem(key, l) == [k |-> key, id |-> "", href |-> NoHref, list |-> l]
\* The sw360:downloadLink sub-key of _links.
DownloadItem(href) == [k |-> "downloadLink", id |-> "", href |-> href, list |-> <<>>]
\* Any other top-level (key, value) pair, and any other sub-key of the section
\* _links or _embedded.  The value of externalIds is an object, given as the
\* list of its (name, value) pairs.
TopItem(key, val) == [k |-> "top", key |-> key, val |-> val]
ExternalIdsItem(ids) == [k |-> "top", key |-> "externalIds", ids |-> ids]
SubItem(section, key, val) == [k |-> "sub", section |-> section, key |-> key, val |-> val]

\* The JSON value of a top-level pair, as details keeps it.
Value(item) ==
    CASE item.k = "id" -> [str |-> item.id]
      [] item.key = "externalIds" -> [ids |-> item.ids]
      [] OTHER -> [str |-> item.val]

HasKey(json, key) == \E n \in 1..Len(json) : json[n].k = key
Item(json, key) == json[CHOOSE n \in 1..Len(json) : json[n].k = key]

\* Entries of an embedded list: an object with an "id", or one that names
\* itself only by its self link.
Entries(kind) ==
    {<<IdItem(i)>> : i \in Ids} \cup {<<SelfItem(kind, i)>> : i \in Ids}

\* The embedded lists: empty, of one entry, and one of two entries.
Lists(kind) ==
    {<<>>} \cup {<<e>> : e \in Entries(kind)} \cup {<<<<IdItem("a")>>, <<IdItem("b")>>>>}

\* The REST path of a class's resources.
Kind(cls) ==
    CASE cls = "Release" -> "releases"
      [] cls = "Component" -> "components"
      [] cls = "Project" -> "projects"
      [] cls = "Attachment" -> "attachments"

\* The keys the server sends for a class: every resource has an "id" and a
\* self link, a release links to its component and to the releases it uses, a
\* component embeds its releases, a project its releases and sub-projects.
Items(cls) ==
    {IdItem(i) : i \in Ids}
    \cup {SelfItem(Kind(cls), i) : i \in Ids}
    \cup (IF cls = "Release" THEN {ComponentItem(i) : i \in Ids} ELSE {})
    \cup {ListItem("releases", l) : l \in Lists("releases")}
    \cup (IF cls = "Project" THEN {ListItem("projects", l) : l \in Lists("projects")} ELSE {})

\* The payloads the application decodes: the empty object and the objects of
\* one key.  from_json handles the keys of an object one after the other, so
\* an object of several keys acts as the objects of its keys decoded in turn.
Payloads(cls) == {<<>>} \cup {<<i>> : i \in Items(cls)}

\* An optional argument: <<>> when it is not given, <<x>> when it is x.
NoJson == <<>>

\* ------------------------------------------------------------------ strings
\* The strings the package URL detection looks into are the sequences of
\* their characters.  A value of externalIds is a string or a list of strings.
Str(s) == [t |-> "str", s |-> s]
List(l) == [t |-> "list", l |-> l]

\* str.startswith
startswith(s, prefix) == Len(s) >= Len(prefix) /\ SubSeq(s, 1, Len(prefix)) = prefix

\* str.split(): the maximal runs of non-blank characters, from character n
\* on; word is the run being read.
RECURSIVE split_at(_, _, _, _)
split_at(s, n, word, acc) ==
    IF n > Len(s) THEN (IF word = <<>> THEN acc ELSE Append(acc, word))
    ELSE IF s[n] = " "
         THEN split_at(s, n + 1, <<>>, IF word = <<>> THEN acc ELSE Append(acc, word))
         ELSE split_at(s, n + 1, Append(word, s[n]), acc)

split(s) == split_at(s, 1, <<>>, <<>>)

\* json.loads of a text that starts with "[", from character n on: an array
\* of string literals.  st: "open" (an element or "]" is next), "elem" (an
\* element is next), "str" (inside a literal), "sep" ("," or "]" is next),
\* "end" (the array is closed).  Anything else is a JSONDecodeError.
RECURSIVE json_array(_, _, _, _, _)
json_array(s, n, st, word, acc) ==
    IF n > Len(s) THEN [ok |-> st = "end", list |-> acc]
    ELSE IF st = "str"
         THEN IF s[n] = "\""
              THEN json_array(s, n + 1, "sep", <<>>, Append(acc, word))
              ELSE json_array(s, n + 1, "str", Append(word, s[n]), acc)
    ELSE IF s[n] = " " THEN json_array(s, n + 1, st, word, acc)
    ELSE IF st \in {"open", "elem"} /\ s[n] = "\"" THEN json_array(s, n + 1, "str", <<>>, acc)
    ELSE IF st \in {"open", "sep"} /\ s[n] = "]" THEN json_array(s, n + 1, "end", <<>>, acc)
    ELSE IF st = "sep" /\ s[n] = "," THEN json_array(s, n + 1, "elem", <<>>, acc)
    ELSE [ok |-> FALSE, list |-> acc]

json_loads(s) == json_array(s, 2, "open", <<>>, <<>>)

\* str.lower() on the letters that occur.
lower(s) == [n \in 1..Len(s) |-> IF s[n] = "A" THEN "a" ELSE IF s[n] = "B" THEN "b" ELSE s[n]]

\* The place of the first "/" in s from n on, or 0.
RECURSIVE find_slash(_, _)
find_slash(s, n) == IF n > Len(s) THEN 0 ELSE IF s[n] = "/" THEN n ELSE find_slash(s, n + 1)

PkgPrefix == <<"p", "k", "g", ":">>

\* packageurl.PackageURL.from_string on a string that starts with "pkg:": the
\* type is what precedes the first "/", in lower case, the name what follows;
\* a ValueError (ok = FALSE) when one of them is missing.
type_and_name(rest, slash) ==
    IF slash <= 1 \/ slash >= Len(rest) THEN [ok |-> FALSE, purl |-> <<>>]
    ELSE [ok |-> TRUE,
          purl |-> <<lower(SubSeq(rest, 1, slash - 1)), SubSeq(rest, slash + 1, Len(rest))>>]

after_scheme(rest) == type_and_name(rest, find_slash(rest, 1))

from_string(purl_string) == after_scheme(SubSeq(purl_string, Len(PkgPrefix) + 1, Len(purl_string)))

\* _parse_purls: the candidate strings of a value ...
candidates(purl_value) ==
    IF purl_value.t = "str"
    THEN IF startswith(purl_value.s, <<"[">>)
         THEN json_loads(purl_value.s)
         ELSE [ok |-> TRUE, list |-> split(purl_value.s)]
    ELSE [ok |-> TRUE, list |-> purl_value.l]

\* ... and the package URLs among them (ok = FALSE: json.loads raised).
purls_of(c) ==
    [ok |-> c.ok,
     purls |-> IF c.ok
               THEN {from_string(c.list[n]).purl :
                        n \in {m \in 1..Len(c.list) :
                                 startswith(c.list[m], PkgPrefix) /\ from_string(c.list[m]).ok}}
               ELSE {}]

parse_purls(purl_value) == purls_of(candidates(purl_value))

\* ------------------------------------------------------------------ state
VARIABLES
    objs,           \* the instances: handle -> attributes
    all_resources,  \* SW360Resource.all_resources: (class name, id) -> handle
    held,           \* unregistered instances a constructor returned to the caller
    last,           \* the last call: its arguments and its outcome
    calls,          \* the number of calls made
    threads,        \* the threads that are in a constructor call: thread -> frame
    lock,           \* the application's lock around constructor calls
    sw360,          \* the SW360 client: its session and force_no_session
    requests,       \* the HTTP requests sent so far
    server          \* the resource the server holds

vars == <<objs, all_resources, held, last, calls, threads, lock, sw360, requests, server>>

\* The variables of the threads and of the REST client.
client == <<threads, lock, sw360, requests, server>>

\* ------------------------------------------------------------- instances
\* An instance object.__new__ just made: no attribute is set yet ("has" is
\* the set of attribute names of the instance's __dict__).
Blank(cls) ==
    [cls |-> cls, has |-> {}, id |-> NoneId, parent |-> NoneRef,
     users |-> EmptyMap, releases |-> EmptyMap, projects |-> EmptyMap,
     attachments |-> EmptyMap, details |-> EmptyMap, attrs |-> EmptyMap,
     download_link |-> NoHref, purls |-> {}, external_ids |-> EmptyMap]

\* object.__setattr__(self, name, value)
SetField(o, name, value) == [[o EXCEPT !.has = @ \cup {name}] EXCEPT ![name] = value]

\* __setattrdefault__: sets when the value is truthy or the attribute is new.
setattrdefault(o, name, value, truthy) ==
    IF truthy \/ name \notin o.has THEN SetField(o, name, value) ELSE o

\* The interpreter's progress through one call: the heap, the registry, the
\* exception raised ("ok": none) and the value the last constructor call
\* returned.
World(o, reg) == [objs |-> o, reg |-> reg, err |-> "ok", ret |-> NoneRef]
Raise(w, e) == [w EXCEPT !.err = e]

\* __setattr__ as a bug would have it: the registry takes the instance without
\* the duplicate check.
setattr_id_overwrite(w, h, value) ==
    LET w1 == [w EXCEPT !.objs[h] = SetField(@, "id", value)]
    IN  IF value = NoneId THEN w1
        ELSE [w1 EXCEPT !.reg = Put(@, <<w.objs[h].cls, value>>, h)]

\* __setattr__ for the name "id": the assignment first, then the registry.
setattr_id(w, h, value) ==
    LET w1 == [w EXCEPT !.objs[h] = SetField(@, "id", value)]
        key == <<w.objs[h].cls, value>>
    IN  IF value = NoneId THEN w1
        ELSE IF key \in DOMAIN w.reg /\ w.reg[key] # h
             THEN Raise(w1, "Duplicate")
             ELSE [w1 EXCEPT !.reg = Put(@, key, h)]

\* __new__ as a bug would have it: a new instance for every call, which takes
\* the key's place in the registry.
resource_new_always(w, cls, json, id_) ==
    LET keyed == Truthy(id_) \/ (json # NoJson /\ Len(json[1]) > 0 /\ HasKey(json[1], "id"))
        key == IF Truthy(id_) THEN <<cls, id_>> ELSE <<cls, Item(json[1], "id").id>>
        fresh == Len(w.objs) + 1
        made == [w EXCEPT !.objs = Append(@, Blank(cls)), !.ret = fresh]
    IN  IF keyed THEN [made EXCEPT !.reg = Put(@, key, fresh)] ELSE made

\* __new__: the registered instance of the key, or a new one.
resource_new(w, cls, json, id_) ==
    LET keyed == Truthy(id_) \/ (json # NoJson /\ Len(json[1]) > 0 /\ HasKey(json[1], "id"))
        key == IF Truthy(id_) THEN <<cls, id_>> ELSE <<cls, Item(json[1], "id").id>>
        fresh == Len(w.objs) + 1
        made == [w EXCEPT !.objs = Append(@, Blank(cls))]
    IN  IF keyed
        THEN IF key \notin DOMAIN w.reg
             THEN [made EXCEPT !.reg = Put(@, key, fresh), !.ret = fresh]
             ELSE [w EXCEPT !.ret = w.reg[key]]
        ELSE [made EXCEPT !.ret = fresh]

RECURSIVE construct(_, _, _, _, _, _)
RECURSIVE from_json_at(_, _, _, _)

\* _parse_release_list: the loop's step for entry n once the constructor has
\* returned (w1), and once the entry is decoded (w2); acc is the dict built so
\* far.
RECURSIVE parse_release_list(_, _, _, _, _, _)
release_put(w2, release, json_list, n, parent, users, acc) ==
    parse_release_list(w2, json_list, n + 1, parent, users,
                       IF w2.err = "ok" THEN Put(acc, w2.objs[release].id, release) ELSE acc)

release_made(w1, json_list, n, parent, users, acc) ==
    release_put(from_json_at(w1, w1.ret, json_list[n], 1), w1.ret,
                json_list, n, parent, users, acc)

\* _parse_release_list from entry n on.
parse_release_list(w, json_list, n, parent, users, acc) ==
    IF w.err # "ok" \/ n > Len(json_list) THEN [w |-> w, map |-> acc]
    ELSE IF ~HasKey(json_list[n], "id")
         THEN [w |-> Raise(w, "KeyError"), map |-> acc]
         ELSE release_made(construct(w, "Release", NoJson, Item(json_list[n], "id").id,
                                     parent, users),
                           json_list, n, parent, users, acc)

\* _parse_project_list: the loop's step for entry n, as for the releases.
RECURSIVE parse_project_list(_, _, _, _, _)
project_put(w2, project, json_list, n, users, acc) ==
    parse_project_list(w2, json_list, n + 1, users,
                       IF w2.err = "ok" THEN Put(acc, w2.objs[project].id, project) ELSE acc)

project_made(w1, json_list, n, users, acc) ==
    project_put(from_json_at(w1, w1.ret, json_list[n], 1), w1.ret,
                json_list, n, users, acc)

\* _parse_project_list from entry n on.
parse_project_list(w, json_list, n, users, acc) ==
    IF w.err # "ok" \/ n > Len(json_list) THEN [w |-> w, map |-> acc]
    ELSE IF ~HasKey(json_list[n], "id")
         THEN [w |-> Raise(w, "KeyError"), map |-> acc]
         ELSE project_made(construct(w, "Project", NoJson, Item(json_list[n], "id").id,
                                     NoneRef, users),
                           json_list, n, users, acc)

\* _parse_attachment_list: the loop's step for entry n, as for the releases.
\* The id of an attachment is the trailing segment of its self link.
RECURSIVE parse_attachment_list(_, _, _, _, _)
attachment_put(w2, attachment, json_list, n, parent, acc) ==
    parse_attachment_list(w2, json_list, n + 1, parent,
                          IF w2.err = "ok" THEN Put(acc, w2.objs[attachment].id, attachment)
                          ELSE acc)

attachment_made(w1, json_list, n, parent, acc) ==
    attachment_put(from_json_at(w1, w1.ret, json_list[n], 1), w1.ret,
                   json_list, n, parent, acc)

\* _parse_attachment_list from entry n on.
parse_attachment_list(w, json_list, n, parent, acc) ==
    IF w.err # "ok" \/ n > Len(json_list) THEN [w |-> w, map |-> acc]
    ELSE IF ~HasKey(json_list[n], "self")
         THEN [w |-> Raise(w, "KeyError"), map |-> acc]
         ELSE attachment_made(
                construct(w, "Attachment", NoJson,
                          TrailingSegment(Item(json_list[n], "self").href), parent, EmptyMap),
                json_list, n, parent, acc)

\* self.parent = Component(...), self.releases = ..., self.projects = ...: the
\* assignment of what the right-hand side returned, unless it raised.
assign_parent(w1, h) ==
    IF w1.err # "ok" THEN w1 ELSE [w1 EXCEPT !.objs[h] = SetField(@, "parent", w1.ret)]

\* The assignment as a bug would have it: the decoded entries join the mapping
\* the instance has.
assign_list_merge(r, h, name) ==
    IF r.w.err # "ok" THEN r.w
    ELSE [r.w EXCEPT !.objs[h] = SetField(@, name, Merge(@[name], r.map))]

assign_list(r, h, name) ==
    IF r.w.err # "ok" THEN r.w ELSE [r.w EXCEPT !.objs[h] = SetField(@, name, r.map)]

\* _parse_link for one sub-key of _links / _embedded.
parse_link(w, h, item) ==
    CASE item.k = "component" ->
            assign_parent(construct(w, "Component", NoJson, TrailingSegment(item.href),
                                    NoneRef, EmptyMap), h)
      [] item.k = "releases" ->
            LET isComponent == w.objs[h].cls = "Component"
                parent == IF isComponent THEN h ELSE NoneRef
                users == IF isComponent THEN EmptyMap ELSE Put(EmptyMap, w.objs[h].id, h)
            IN  assign_list(parse_release_list(w, item.list, 1, parent, users, EmptyMap),
                            h, "releases")
      [] item.k = "projects" ->
            assign_list(parse_project_list(w, item.list, 1, Put(EmptyMap, w.objs[h].id, h),
                                           EmptyMap),
                        h, "projects")
      [] item.k = "self" -> setattr_id(w, h, TrailingSegment(item.href))
      [] item.k = "attachments" ->
            assign_list(parse_attachment_list(w, item.list, 1, h, EmptyMap), h, "attachments")
      [] item.k = "downloadLink" ->
            [w EXCEPT !.objs[h] = SetField(@, "download_link", item.href)]
      [] item.k = "sub" ->
            [w EXCEPT !.objs[h].details =
                Put(@, item.section,
                    [sub |-> Put(IF item.section \in DOMAIN @ THEN @[item.section].sub
                                 ELSE EmptyMap,
                                 item.key, [str |-> item.val])])]

\* The copy_attributes of a class's from_json, and the attribute name of a
\* JSON key (camelCase to snake_case).
copy_attributes(cls) ==
    CASE cls = "Release" -> {"name", "version", "downloadurl", "externalIds"}
      [] cls = "Attachment" ->
            {"filename", "sha1", "attachmentType", "createdBy", "createdTeam",
             "createdComment", "createdOn", "checkedBy", "checkedTeam", "checkedComment",
             "checkedOn", "checkStatus"}
      [] cls = "Component" ->
            {"name", "description", "homepage", "componentType", "externalIds"}
      [] cls = "Project" ->
            {"name", "description", "version", "visibility", "projectType", "externalIds"}

snake_case(key) ==
    CASE key = "externalIds" -> "external_ids"
      [] key = "attachmentType" -> "attachment_type"
      [] key = "componentType" -> "component_type"
      [] key = "projectType" -> "project_type"
      [] key = "createdBy" -> "created_by"
      [] key = "createdTeam" -> "created_team"
      [] key = "createdComment" -> "created_comment"
      [] key = "createdOn" -> "created_on"
      [] key = "checkedBy" -> "checked_by"
      [] key = "checkedTeam" -> "checked_team"
      [] key = "checkedComment" -> "checked_comment"
      [] key = "checkedOn" -> "checked_on"
      [] key = "checkStatus" -> "check_status"
      [] OTHER -> key

\* One (id_type, id_value) pair of externalIds, given what _parse_purls made
\* of the value: the package URLs join purls, or the value goes to
\* external_ids.
external_id(w, h, id_type, id_value, parsed) ==
    IF ~parsed.ok THEN Raise(w, "JSONDecodeError")
    ELSE IF parsed.purls # {}
         THEN [w EXCEPT !.objs[h].purls = @ \cup parsed.purls]
         ELSE [w EXCEPT !.objs[h].external_ids = Put(@, id_type, id_value)]

\* The loop over externalIds from pair n on.
RECURSIVE external_ids_at(_, _, _, _)
external_ids_at(w, h, ids, n) ==
    IF w.err # "ok" \/ n > Len(ids) THEN w
    ELSE external_ids_at(
            external_id(w, h, ids[n].name, ids[n].value, parse_purls(ids[n].value)),
            h, ids, n + 1)

\* from_json as a bug would have it: every top-level pair but "id" becomes an
\* attribute, whether the class lists its key or not.
top_level_setattr(w, h, item) ==
    IF item.k = "top" /\ item.key # "externalIds"
    THEN [w EXCEPT !.objs[h].attrs = Put(@, snake_case(item.key), item.val)]
    ELSE [w EXCEPT !.objs[h].details =
            Put(@, IF item.k = "id" THEN "id" ELSE item.key, Value(item))]

\* from_json for one top-level pair that is neither _links nor _embedded.
top_level(w, h, item) ==
    IF item.k = "top" /\ item.key \in copy_attributes(w.objs[h].cls)
    THEN IF snake_case(item.key) = "external_ids"
         THEN external_ids_at(w, h, item.ids, 1)
         ELSE [w EXCEPT !.objs[h].attrs = Put(@, snake_case(item.key), item.val)]
    ELSE [w EXCEPT !.objs[h].details =
            Put(@, IF item.k = "id" THEN "id" ELSE item.key, Value(item))]

\* from_json from item n on.  "id" is in no class's copy_attributes: it goes
\* to details.
from_json_at(w, h, json, n) ==
    IF w.err # "ok" \/ n > Len(json) THEN w
    ELSE from_json_at(IF json[n].k \in {"id", "top"} THEN top_level(w, h, json[n])
                      ELSE parse_link(w, h, json[n]),
                      h, json, n + 1)

from_json(w, h, json) == from_json_at(w, h, json, 1)

\* SW360Resource.__init__ as a bug would have it: a parent that is given is
\* assigned without the comparison with the parent the instance has.
resource_init_reparent(w, h, json, id_, parent, users) ==
    LET w1 == [w EXCEPT !.objs[h] = setattrdefault(@, "users", EmptyMap, FALSE)]
        self == w1.objs[h]
        known == IF "id" \in self.has THEN self.id ELSE id_
    IN  IF Truthy(id_) /\ known # id_ THEN Raise(w1, "IdMismatch")
        ELSE
        LET w2 == setattr_id(w1, h, id_) IN
        IF w2.err # "ok" THEN w2
        ELSE
        LET w3 == IF "parent" \in self.has /\ parent = NoneRef THEN w2
                  ELSE [w2 EXCEPT !.objs[h] = SetField(@, "parent", parent)]
            w4 == [w3 EXCEPT !.objs[h].users = Merge(@, users)]
        IN  IF json = NoJson THEN w4 ELSE from_json(w4, h, json[1])

\* SW360Resource.__init__ from the users merge on (w3: after the parent check).
init_users(w3, h, json, users) ==
    IF w3.err # "ok" THEN w3
    ELSE LET w4 == [w3 EXCEPT !.objs[h].users = Merge(@, users)]
         IN  IF json = NoJson THEN w4 ELSE from_json(w4, h, json[1])

\* SW360Resource.__init__ from the parent check on (w2: after self.id = id_;
\* self: the instance's attributes when __init__ was entered).
init_parent(w2, self, h, json, parent, users) ==
    IF w2.err # "ok" THEN w2
    ELSE init_users(
            IF "parent" \in self.has
            THEN IF parent # NoneRef
                 THEN IF self.parent = NoneRef THEN Raise(w2, "AttributeError")
                      ELSE IF w2.objs[self.parent].id # w2.objs[parent].id
                           THEN Raise(w2, "ParentMismatch")
                           ELSE w2
                 ELSE w2
            ELSE [w2 EXCEPT !.objs[h] = SetField(@, "parent", parent)],
            h, json, users)

\* SW360Resource.__init__ from the id check on (w1: after the users default).
init_id(w1, h, json, id_, parent, users) ==
    LET self == w1.objs[h]
        known == IF "id" \in self.has THEN self.id ELSE id_
    IN  IF Truthy(id_) /\ known # id_ THEN Raise(w1, "IdMismatch")
        ELSE init_parent(setattr_id(w1, h, id_), self, h, json, parent, users)

\* SW360Resource.__init__
resource_init(w, h, json, id_, parent, users) ==
    init_id([w EXCEPT !.objs[h] = setattrdefault(@, "users", EmptyMap, FALSE)],
            h, json, id_, parent, users)

\* __setattrdefault__ of attachments, external_ids and purls with their empty
\* defaults, and of the scalar attributes with None: only an attribute the
\* instance does not have yet is set.
\* The defaults as a bug would have it: every constructor call empties purls
\* and external_ids.
ids_defaults_reset(o) ==
    setattrdefault(setattrdefault(setattrdefault(o, "external_ids", EmptyMap, TRUE),
                                  "purls", {}, TRUE),
                   "attachments", EmptyMap, FALSE)

ids_defaults(o) ==
    setattrdefault(setattrdefault(setattrdefault(o, "external_ids", EmptyMap, FALSE),
                                  "purls", {}, FALSE),
                   "attachments", EmptyMap, FALSE)

\* The scalar defaults as a bug would have it: every constructor call sets the
\* scalar attributes of the class to None.
scalar_defaults_reset(o, names) ==
    [o EXCEPT !.attrs = [x \in (DOMAIN @) \cup names |-> IF x \in names THEN NoneId ELSE @[x]]]

scalar_defaults(o, names) ==
    [o EXCEPT !.attrs = [x \in (DOMAIN @) \cup names |-> IF x \in DOMAIN @ THEN @[x] ELSE NoneId]]

\* The attribute defaults a subclass's __init__ sets before it calls
\* SW360Resource.__init__.
class_defaults(o, cls) ==
    CASE cls = "Release" -> scalar_defaults(ids_defaults(o), {"name", "version", "downloadurl"})
      [] cls = "Attachment" ->
            setattrdefault(scalar_defaults(o, {"attachment_type", "filename", "sha1"}),
                           "download_link", NoHref, FALSE)
      [] cls = "Component" ->
            scalar_defaults(ids_defaults(setattrdefault(o, "releases", EmptyMap, FALSE)),
                            {"name", "description", "homepage", "component_type"})
      [] cls = "Project" ->
            scalar_defaults(
                ids_defaults(setattrdefault(setattrdefault(o, "releases", EmptyMap, FALSE),
                                            "projects", EmptyMap, FALSE)),
                {"name", "version", "description", "visibility", "project_type"})

\* Release.__init__, Component.__init__, Project.__init__: the defaults of the
\* subclass, then SW360Resource.__init__.  Component takes neither parent nor
\* users, Project no parent, Attachment no users.
class_init(w, cls, h, json, id_, parent, users) ==
    resource_init([w EXCEPT !.objs[h] = class_defaults(@, cls)], h, json, id_,
                  IF cls \in {"Release", "Attachment"} THEN parent ELSE NoneRef,
                  IF cls \in {"Component", "Attachment"} THEN EmptyMap ELSE users)

\* __init__ on the instance __new__ returned (w1.ret), which is what the
\* constructor call evaluates to.
new_init(w1, cls, json, id_, parent, users) ==
    [class_init(w1, cls, w1.ret, json, id_, parent, users) EXCEPT !.ret = w1.ret]

\* cls(json=json, id_=id_, parent=parent, users=users): __new__, then __init__
\* on what it returned.
construct(w, cls, json, id_, parent, users) ==
    IF w.err # "ok" THEN w
    ELSE new_init(resource_new(w, cls, json, id_), cls, json, id_, parent, users)

\* ------------------------------------------------------------ the caller
\* What the caller can reach: what constructors returned to it, the registry
\* (a public class attribute), and everything those refer to.
Edges(o, h) ==
    ({o[h].parent} \cup Range(o[h].users) \cup Range(o[h].releases) \cup Range(o[h].projects)
     \cup Range(o[h].attachments))
    \ {NoneRef}

RECURSIVE Closure(_, _, _)
Closure(o, S, n) ==
    IF n = 0 THEN S ELSE Closure(o, S \cup UNION {Edges(o, h) : h \in S}, n - 1)

Accessible == Closure(objs, held \cup Range(all_resources), Len(objs))

\* The interpreter's state before the next call.
Now == World(objs, all_resources)

\* cls(json=json, id_=id_, parent=parent) called by the application: Release.get,
\* Component.get and Project.get are the calls with both json and id_.
CreateCall(cls, json, id_, parent) == construct(Now, cls, json, id_, parent, EmptyMap)
\* h.from_json(json), which is also what h.update() does with the server's answer.
UpdateCall(h, json) == from_json(Now, h, json)
\* h.id = value
AssignCall(h, value) == setattr_id(Now, h, value)

Init ==
    /\ objs = <<>>
    /\ all_resources = EmptyMap
    /\ held = {}
    /\ last = [op |-> "none", h |-> NoneRef, err |-> "ok"]
    /\ calls = 0
    /\ threads = <<>>
    /\ lock = [used |-> FALSE, owner |-> 0]
    /\ sw360 = [session |-> NoneId, force_no_session |-> FALSE]
    /\ requests = <<>>
    /\ server = EmptyMap

Commit(w) ==
    /\ calls < MaxCalls
    /\ Len(w.objs) <= MaxObj
    /\ calls' = calls + 1
    /\ objs' = w.objs
    /\ all_resources' = w.reg

\* A call returns or raises, leaving the interpreter in w: the application keeps
\* the instance a constructor returned.
Returned(op, h, w) ==
    /\ Commit(w)
    /\ held' = IF op = "create" /\ w.err = "ok" /\ w.ret \notin Range(w.reg)
               THEN held \cup {w.ret}
               ELSE held \ Range(w.reg)
    /\ last' = [op |-> op, h |-> IF op = "create" THEN w.ret ELSE h, err |-> w.err]
    /\ UNCHANGED client

Create(cls, json, id_, parent) ==
    Returned("create", NoneRef, CreateCall(cls, json, id_, parent))

Update(h, json) == Returned("update", h, UpdateCall(h, json))

AssignId(h, value) == Returned("assign", h, AssignCall(h, value))

\* The arguments the application passes.
JsonArgs(cls) == {NoJson} \cup {<<p>> : p \in Payloads(cls)}
IdArgs == Ids \cup {NoneId}
Parents(cls) ==
    IF cls = "Release"
    THEN {NoneRef} \cup {h \in Accessible : objs[h].cls = "Component"}
    ELSE {NoneRef}

Next ==
    \/ \E cls \in Classes, id_ \in IdArgs :
         \E json \in JsonArgs(cls), parent \in Parents(cls) :
            Create(cls, json, id_, parent)
    \/ \E h \in Accessible : \E json \in Payloads(objs[h].cls) : Update(h, json)
    \/ \E h \in Accessible, value \in Ids : AssignId(h, value)

Spec == Init /\ [][Next]_vars

\* ------------------------------------------------ the calls of a state
\* Every call the application can make next, as a record of its arguments.
CreateCalls ==
    UNION {{[op |-> "create", cls |-> cls, h |-> NoneRef, json |-> json, id_ |-> id_,
             parent |-> parent] :
                json \in JsonArgs(cls), id_ \in IdArgs, parent \in Parents(cls)} :
           cls \in Classes}
UpdateCalls ==
    UNION {{[op |-> "update", cls |-> objs[h].cls, h |-> h, json |-> <<json>>,
             id_ |-> NoneId, parent |-> NoneRef] : json \in Payloads(objs[h].cls)} :
           h \in Accessible}
AssignCalls ==
    {[op |-> "assign", cls |-> objs[h].cls, h |-> h, json |-> NoJson, id_ |-> value,
      parent |-> NoneRef] : h \in Accessible, value \in Ids}
Calls == IF calls < MaxCalls THEN CreateCalls \cup UpdateCalls \cup AssignCalls ELSE {}

\* The interpreter's state after call c, and the instance c acts on.
Apply(c) ==
    CASE c.op = "create" -> CreateCall(c.cls, c.json, c.id_, c.parent)
      [] c.op = "update" -> UpdateCall(c.h, c.json[1])
      [] c.op = "assign" -> AssignCall(c.h, c.id_)
Target(c, w) == IF c.op = "create" THEN w.ret ELSE c.h

\* An instance's attributes before the call (those of a new instance if the
\* call made it).
Before(h) == IF h <= Len(objs) THEN objs[h] ELSE Blank("")
\* The interpreter's state when call c, whose payload has one key, comes to
\* decode that key: a constructor call has run __new__ and __init__ up to
\* from_json by then.
AtDispatch(c) ==
    IF c.op = "create" THEN construct(Now, c.cls, NoJson, c.id_, c.parent, EmptyMap)
    ELSE Now
\* An instance's attributes in state w (those of a new instance if it is made
\* later).
In(w, h) == IF h <= Len(w.objs) THEN w.objs[h] ELSE Blank("")
\* Whether call c decodes a payload with the key.
Decodes(c, key) == c.json # NoJson /\ HasKey(c.json[1], key)
Registered(key) == key \in DOMAIN all_resources

\* -------------------------------------------------------------- claims
\* The reference h a call obtained for key is the registered instance of the
\* key, the one that was registered before the call if there was one.
SameInstance(w, key, h) ==
    /\ key \in DOMAIN w.reg
    /\ w.reg[key] = h
    /\ Registered(key) => all_resources[key] = h

\* C1: whichever path passes or derives a (type, id) - a constructor call with
\* that id_, an entry of an embedded release or project list, the
\* sw360:component link of a release - the reference obtained is the one
\* instance the registry holds for (type, id), and no call makes the registry
\* hold another instance for a key it already has.
C1_IdentityMap ==
    \A c \in Calls :
        LET w == Apply(c)
            t == Target(c, w)
        IN  /\ \A k \in DOMAIN all_resources :
                    k \in DOMAIN w.reg /\ w.reg[k] = all_resources[k]
            /\ w.err = "ok" =>
                /\ (c.op = "create" /\ Truthy(c.id_)) =>
                        SameInstance(w, <<c.cls, c.id_>>, w.ret)
                /\ Decodes(c, "component") =>
                        SameInstance(w, <<"Component",
                                          TrailingSegment(Item(c.json[1], "component").href)>>,
                                     w.objs[t].parent)
                /\ Decodes(c, "releases") =>
                        \A e \in Range(Item(c.json[1], "releases").list) :
                            /\ Item(e, "id").id \in DOMAIN w.objs[t].releases
                            /\ SameInstance(w, <<"Release", Item(e, "id").id>>,
                                            w.objs[t].releases[Item(e, "id").id])
                /\ Decodes(c, "projects") =>
                        \A e \in Range(Item(c.json[1], "projects").list) :
                            /\ Item(e, "id").id \in DOMAIN w.objs[t].projects
                            /\ SameInstance(w, <<"Project", Item(e, "id").id>>,
                                            w.objs[t].projects[Item(e, "id").id])

\* A release that a component's embedded list gave is then returned by a
\* constructor call, and the registry has it under one key.
C1_Witness ==
    /\ last.op = "create" /\ last.err = "ok"
    /\ objs[last.h].cls = "Release"
    /\ \E c \in 1..Len(objs) :
            objs[c].cls = "Component" /\ last.h \in Range(objs[c].releases)
    /\ Cardinality({k \in DOMAIN all_resources : all_resources[k] = last.h}) = 1

\* C2: a constructor call without id_ whose payload's self link ends in an id
\* registered for the class returns the registered instance, makes no
\* instance and raises nothing.
C2_SelfLinkReturnsRegistered ==
    \A c \in Calls :
        (c.op = "create" /\ c.id_ = NoneId /\ Decodes(c, "self")
         /\ ~HasKey(c.json[1], "id")
         /\ Registered(<<c.cls, TrailingSegment(Item(c.json[1], "self").href)>>)) =>
            LET w == Apply(c)
            IN  /\ w.err = "ok"
                /\ w.ret = all_resources[<<c.cls, TrailingSegment(Item(c.json[1], "self").href)>>]
                /\ Len(w.objs) = Len(objs)

\* C3: an id that is set (not None) is not changed by a constructor call or a
\* decode, neither to another value nor to None, and decoding a self link
\* that names another id raises the id mismatch.
C3_IdImmutable ==
    \A c \in Calls :
        c.op \in {"create", "update"} =>
            LET w == Apply(c)
            IN  /\ \A h \in 1..Len(objs) :
                        objs[h].id # NoneId => w.objs[h].id = objs[h].id
                /\ (c.op = "update" /\ Decodes(c, "self") /\ objs[c.h].id # NoneId
                    /\ TrailingSegment(Item(c.json[1], "self").href) # objs[c.h].id) =>
                        w.err = "IdMismatch"

\* C4: assigning an id to an instance while the registry has another instance
\* for (type, id) - by h.id = value, by decoding a self link onto h, or by
\* constructing an instance from a payload with that self link - raises the
\* duplicate error, and the registry keeps the other instance for (type, id).
C4_DuplicateRaises ==
    \A c \in Calls :
        LET value == IF c.op = "assign" THEN c.id_
                     ELSE TrailingSegment(Item(c.json[1], "self").href)
            key == <<c.cls, value>>
            w == Apply(c)
        IN  (/\ c.op = "assign" \/ (Decodes(c, "self") /\ c.id_ = NoneId
                                    /\ ~HasKey(c.json[1], "id"))
             /\ Registered(key)
             /\ c.op # "create" => all_resources[key] # c.h) =>
                /\ w.err = "Duplicate"
                /\ w.reg[key] = all_resources[key]
                /\ w.reg[key] # Target(c, w)

\* An assignment of a registered id to another instance has raised.
C4_Witness ==
    /\ last.op \in {"assign", "update", "create"} /\ last.err = "Duplicate"
    /\ \E k \in DOMAIN all_resources :
            /\ k = <<objs[last.h].cls, objs[last.h].id>>
            /\ all_resources[k] # last.h

\* C5: Release(id_=r, parent=c2) for the registered release r that has a
\* parent whose id is not c2's id raises the parent mismatch, and r keeps the
\* parent it had.
C5_ParentMismatch ==
    \A c \in Calls :
        LET key == <<"Release", c.id_>>
            r == all_resources[key]
            w == Apply(c)
        IN  (/\ c.op = "create" /\ c.cls = "Release" /\ c.parent # NoneRef
             /\ Registered(key)
             /\ objs[r].id = c.id_
             /\ objs[r].parent # NoneRef
             /\ objs[objs[r].parent].id # objs[c.parent].id) =>
                /\ w.err = "ParentMismatch"
                /\ w.objs[r].parent = objs[r].parent

\* A constructor call has raised the parent mismatch on a release that has a
\* parent.
C5_Witness ==
    /\ last.op = "create" /\ last.err = "ParentMismatch"
    /\ objs[last.h].cls = "Release"
    /\ objs[last.h].parent # NoneRef

\* C6: decoding a sw360:component link that names c2 onto a resource whose
\* parent has the id c1 # c2 raises, and the parent stays.
C6_ParentLinkChecked ==
    \A c \in Calls :
        LET w == Apply(c)
            t == Target(c, w)
            c2 == TrailingSegment(Item(c.json[1], "component").href)
        IN  (/\ c.op \in {"create", "update"} /\ Decodes(c, "component")
             /\ Before(t).parent # NoneRef
             /\ objs[Before(t).parent].id \notin {NoneId, c2}) =>
                /\ w.err # "ok"
                /\ w.objs[t].parent = Before(t).parent

\* C7: no constructor call and no decode replaces the user a resource has
\* under a key (an id string) by another instance.
C7_UsersNotReplaced ==
    \A c \in Calls :
        c.op \in {"create", "update"} =>
            LET w == Apply(c)
            IN  \A h \in 1..Len(objs) :
                    \A k \in DOMAIN objs[h].users :
                        Truthy(k) => w.objs[h].users[k] = objs[h].users[k]

\* C8: after sw360:releases is decoded on a component, every release of
\* component.releases has that component instance as parent, and its users
\* are what they were.
C8_ComponentIsParent ==
    \A c \in Calls :
        LET w == Apply(c)
            t == Target(c, w)
        IN  (/\ c.op \in {"create", "update"} /\ c.cls = "Component"
             /\ Decodes(c, "releases")
             /\ w.err = "ok") =>
                \A r \in Range(w.objs[t].releases) :
                    /\ w.objs[r].parent = t
                    /\ w.objs[r].users = In(AtDispatch(c), r).users

\* C9: with an empty registry, Component(id_=c, json) whose embedded releases
\* have a self link and no "id" succeeds: each release is in
\* component.releases under the last part of its href, its parent has the id
\* c, and the registry has the component and those releases and nothing else.
C9_EntriesKeyedBySelfLink ==
    \A c \in Calls :
        LET w == Apply(c)
            t == Target(c, w)
            entries == Range(Item(c.json[1], "releases").list)
            EntryId(e) == TrailingSegment(Item(e, "self").href)
        IN  (/\ all_resources = EmptyMap
             /\ c.op = "create" /\ c.cls = "Component" /\ Truthy(c.id_)
             /\ Decodes(c, "releases")
             /\ entries # {}
             /\ \A e \in entries : HasKey(e, "self") /\ ~HasKey(e, "id")) =>
                /\ w.err = "ok"
                /\ \A e \in entries :
                        /\ EntryId(e) \in DOMAIN w.objs[t].releases
                        /\ w.objs[w.objs[w.objs[t].releases[EntryId(e)]].parent].id = c.id_
                /\ DOMAIN w.reg =
                        {<<"Component", c.id_>>} \cup {<<"Release", EntryId(e)>> : e \in entries}

MaxDecodeCalls == 2

\* An href without a trailing id segment: the empty string, and one that ends
\* in "/".
NoIdHrefs(kind) == {<<"">>, Href(kind, "")}
HrefItem(key, href) == [k |-> key, id |-> "", href |-> href, list |-> <<>>]

\* Entries of an embedded attachment list: an attachment names itself by its
\* self link (one entry has an "id" only).
AttachmentEntries ==
    {<<SelfItem("attachments", i)>> : i \in Ids}
    \cup {<<HrefItem("self", href)>> : href \in NoIdHrefs("attachments")}
    \cup {<<IdItem("a")>>}
AttachmentLists ==
    {<<>>} \cup {<<e>> : e \in AttachmentEntries}
    \cup {<<<<SelfItem("attachments", "a")>>, <<SelfItem("attachments", "b")>>>>}

\* Entries of an embedded release list that have an "id" and a self link,
\* which names the same id or another one.
LinkedEntries(kind) ==
    {<<IdItem("a")>>} \cup {<<IdItem("a"), SelfItem(kind, i)>> : i \in Ids}
LinkedLists(kind) == {<<e>> : e \in LinkedEntries(kind)}

\* Keys no decoder knows: at the top level, and inside _links / _embedded.
UnknownItems ==
    {IdItem("a"), TopItem("somekey", "value"),
     SubItem("_embedded", "sw360:vendors", "vendor"), SubItem("_links", "curies", "curie")}

RelationKeys == {"component", "releases", "projects", "attachments"}

DecodeItems(cls) ==
    {TopItem("name", "acl"), TopItem("name", "zlib")}
    \cup UnknownItems
    \cup {SelfItem(Kind(cls), i) : i \in Ids}
    \cup {HrefItem("self", href) : href \in NoIdHrefs(Kind(cls))}
    \cup (IF cls # "Attachment"
          THEN {ListItem("attachments", l) : l \in AttachmentLists}
          ELSE {})
    \cup (IF cls = "Release"
          THEN {ComponentItem(i) : i \in Ids}
               \cup {HrefItem("component", href) : href \in NoIdHrefs("components")}
          ELSE {})
    \cup (IF cls \in {"Component", "Project"}
          THEN {ListItem("releases", l) : l \in LinkedLists("releases")}
          ELSE {})
    \cup (IF cls = "Project"
          THEN {ListItem("projects", l) : l \in LinkedLists("projects")}
          ELSE {})
    \cup (IF cls = "Attachment"
          THEN {DownloadItem(Href("attachments", "a"))}
          ELSE {})

\* The payloads: the objects of one key, and one of three keys.
DecodePayloads(cls) ==
    {<<i>> : i \in DecodeItems(cls)}
    \cup {<<TopItem("name", "acl"), TopItem("somekey", "value"), SelfItem(Kind(cls), "a")>>}

DecodeJsonArgs(cls) == {NoJson} \cup {<<p>> : p \in DecodePayloads(cls)}
DecodeParents(cls) ==
    CASE cls = "Release" -> Parents(cls)
      [] cls = "Attachment" ->
            {NoneRef} \cup {h \in Accessible : objs[h].cls # "Attachment"}
      [] OTHER -> {NoneRef}

DecodeNext ==
    /\ calls < MaxDecodeCalls
    /\ \/ \E cls \in AllClasses, id_ \in IdArgs :
            \E json \in DecodeJsonArgs(cls), parent \in DecodeParents(cls) :
                Create(cls, json, id_, parent)
       \/ \E h \in Accessible : \E json \in DecodePayloads(objs[h].cls) : Update(h, json)

DecodeSpec == Init /\ [][DecodeNext]_vars

\* Every call the application can make next under DecodeSpec.
DecodeCreateCalls ==
    UNION {{[op |-> "create", cls |-> cls, h |-> NoneRef, json |-> json, id_ |-> id_,
             parent |-> parent] :
                json \in DecodeJsonArgs(cls), id_ \in IdArgs, parent \in DecodeParents(cls)} :
           cls \in AllClasses}
DecodeUpdateCalls ==
    UNION {{[op |-> "update", cls |-> objs[h].cls, h |-> h, json |-> <<json>>,
             id_ |-> NoneId, parent |-> NoneRef] : json \in DecodePayloads(objs[h].cls)} :
           h \in Accessible}
DecodeCalls ==
    IF calls < MaxDecodeCalls THEN DecodeCreateCalls \cup DecodeUpdateCalls ELSE {}

\* ------------------------------------------------------- claims C11, C20
\* The entry's self link, and the id it names.
SelfHref(entry) == Item(entry, "self").href
EntryIds(list) == {TrailingSegment(SelfHref(list[n])) : n \in 1..Len(list)}
\* Every entry of the list has a self link that ends in an id.
NamedEntries(list) ==
    \A n \in 1..Len(list) :
        HasKey(list[n], "self") /\ Truthy(TrailingSegment(SelfHref(list[n])))
\* The payload of call c, and its call arrives at the decoding of the payload.
Payload(c) == c.json[1]
Dispatched(c) == c.json # NoJson /\ AtDispatch(c).err = "ok"

\* C11: after sw360:attachments is decoded on an instance X, X.attachments maps
\* the id of every entry (the trailing segment of the entry's self href) to an
\* Attachment whose parent is X itself, whatever resource decoded the same
\* attachment id before: the decode raises nothing.
C11_AttachmentsParentIsTarget ==
    \A c \in DecodeCalls :
        (Dispatched(c) /\ HasKey(Payload(c), "attachments")
         /\ NamedEntries(Item(Payload(c), "attachments").list))
        => LET w == Apply(c)
               x == Target(c, w)
           IN  /\ w.err = "ok"
               /\ \A i \in EntryIds(Item(Payload(c), "attachments").list) :
                     /\ i \in DOMAIN w.objs[x].attachments
                     /\ w.objs[w.objs[x].attachments[i]].cls = "Attachment"
                     /\ w.objs[w.objs[x].attachments[i]].id = i
                     /\ w.objs[w.objs[x].attachments[i]].parent = x

\* The hrefs call c decodes: its self link, its sw360:component link, and the
\* self links of its embedded attachments.
DecodedHrefs(c) ==
    {Payload(c)[n].href : n \in {m \in 1..Len(Payload(c)) :
                                    Payload(c)[m].k \in {"self", "component"}}}
    \cup UNION {{SelfHref(Payload(c)[n].list[e]) :
                    e \in {f \in 1..Len(Payload(c)[n].list) :
                              HasKey(Payload(c)[n].list[f], "self")}} :
                n \in {m \in 1..Len(Payload(c)) : Payload(c)[m].k = "attachments"}}

\* C20: decoding a self, sw360:component or embedded-attachment href without a
\* trailing id segment (the empty string, or one ending in "/") fails with a
\* malformed-reference error, and no instance has or is registered under the
\* empty id.
C20_NoIdHrefIsMalformed ==
    /\ \A c \in DecodeCalls :
          (Dispatched(c) /\ \E href \in DecodedHrefs(c) : TrailingSegment(href) = "")
          => Apply(c).err = "MalformedReference"
    /\ \A key \in DOMAIN all_resources : key[2] # ""
    /\ \A h \in 1..Len(objs) : objs[h].id # ""

\* ------------------------------------------------- claims C17, C18, C19
\* What C17 compares: the id, the scalar attributes, details, the parent, the
\* users and the relationship maps of an instance.
Decoded(o) ==
    <<o.id, o.attrs, o.details, o.parent, o.users, o.releases, o.projects, o.attachments>>

\* C17: for every payload and resource, decoding the same payload a second
\* time right after a decode that succeeded succeeds too and leaves the id, the
\* scalar attributes, details, parent, users and the relationship maps as the
\* first decode left them.
C17_DecodeTwice ==
    \A c \in DecodeCalls :
        (c.json # NoJson /\ Apply(c).err = "ok")
        => LET w1 == Apply(c)
               x == Target(c, w1)
               w2 == from_json(w1, x, Payload(c))
           IN  w2.err = "ok" /\ Decoded(w2.objs[x]) = Decoded(w1.objs[x])

\* The instance an embedded list made for each of its entries, keyed by the
\* entry's id.
KeyedById(w, map, cls) ==
    \A i \in DOMAIN map : w.objs[map[i]].cls = cls /\ w.objs[map[i]].id = i

\* C18: a decode of a payload without the sub-key of a relation (sw360:releases,
\* sw360:projects, sw360:attachments, sw360:component) leaves that relationship
\* of the target as it was, and a payload with none of them leaves the users as
\* they were; a payload with the sub-key of an embedded list replaces the
\* relationship by the instances decoded from the list, one per entry.
C18_RelationsKeptUnlessSupplied ==
    \A c \in DecodeUpdateCalls :
        LET w == Apply(c)
            old == objs[c.h]
            new == w.objs[c.h]
            supplied(key) == HasKey(Payload(c), key)
        IN  /\ ~supplied("releases") => new.releases = old.releases
            /\ ~supplied("projects") => new.projects = old.projects
            /\ ~supplied("attachments") => new.attachments = old.attachments
            /\ ~supplied("component") => new.parent = old.parent
            /\ (\A key \in RelationKeys : ~supplied(key)) => new.users = old.users
            /\ \A key \in {"releases", "projects", "attachments"} :
                  (supplied(key) /\ w.err = "ok")
                  => /\ Cardinality(DOMAIN new[key]) <= Len(Item(Payload(c), key).list)
                     /\ (Item(Payload(c), key).list = <<>>) => new[key] = EmptyMap
                     /\ KeyedById(w, new[key],
                                  CASE key = "releases" -> "Release"
                                    [] key = "projects" -> "Project"
                                    [] key = "attachments" -> "Attachment")

\* A decode that left a relationship alone has happened: the target's release
\* list is from the constructor call, its name from the update after it.
C18_Witness ==
    /\ last.op = "update" /\ last.err = "ok"
    /\ objs[last.h].releases # EmptyMap
    /\ objs[last.h].attrs["name"] = "acl"

\* The mapping m has the value v under the key.
Holds(m, key, v) == key \in DOMAIN m /\ m[key] = v

\* A payload key the class's decoder does not know.
Unknown(cls, item) ==
    \/ item.k = "id"
    \/ item.k = "sub"
    \/ item.k = "top" /\ item.key \notin copy_attributes(cls) \cup {"externalIds"}

\* C19: a payload key that is neither in the class's scalar allow-list nor
\* externalIds, _links or _embedded is stored verbatim in details[key], a
\* sub-key of _links / _embedded outside the relation table verbatim in
\* details[section][sub_key]; the decode raises nothing and leaves id, scalar
\* attributes, parent, users and the relationship maps as they were.
C19_UnknownKeysToDetails ==
    \A c \in DecodeUpdateCalls :
        (Len(Payload(c)) = 1 /\ Unknown(c.cls, Payload(c)[1]))
        => LET w == Apply(c)
               item == Payload(c)[1]
               old == objs[c.h]
               new == w.objs[c.h]
           IN  /\ w.err = "ok"
               /\ CASE item.k = "id" -> Holds(new.details, "id", [str |-> item.id])
                    [] item.k = "top" -> Holds(new.details, item.key, [str |-> item.val])
                    [] item.k = "sub" ->
                          /\ item.section \in DOMAIN new.details
                          /\ Holds(new.details[item.section].sub, item.key,
                                   [str |-> item.val])
               /\ [new EXCEPT !.details = old.details] = old
               /\ w.reg = all_resources

\* An unknown key has been decoded onto an instance.
C19_Witness ==
    /\ last.op = "update" /\ last.err = "ok"
    /\ "somekey" \in DOMAIN objs[last.h].details

\* =========================================================== externalIds
\* The package URL detection: a release or a component with the id "a" is
\* fetched and updated up to MaxPurlCalls times with payloads that have an
\* externalIds object.
MaxPurlCalls == 2

\* Candidate strings: pkg:a/b, pkg:A/b (the same package URL, the type is case
\* insensitive), pkg:b/a; pkg:a, which PackageURL rejects, and the opaque ids
\* ba and [b.
PurlAB == <<"p", "k", "g", ":", "a", "/", "b">>
PurlUpperAB == <<"p", "k", "g", ":", "A", "/", "b">>
PurlBA == <<"p", "k", "g", ":", "b", "/", "a">>
PurlNoName == <<"p", "k", "g", ":", "a">>
OpaqueId == <<"b", "a">>
BracketId == <<"[", "b">>
GoodCandidates == {PurlAB, PurlUpperAB, PurlBA}
Candidates == GoodCandidates \cup {PurlNoName, OpaqueId, BracketId}
Paired == {PurlAB, PurlBA, PurlNoName, BracketId}
CandidateLists ==
    {<<>>} \cup {<<c>> : c \in Candidates} \cup {<<c, d>> : c \in Paired, d \in Paired}
    \cup {<<PurlUpperAB, PurlAB>>, <<OpaqueId, PurlBA>>}

\* sep.join(l) from element n on.
RECURSIVE join(_, _, _)
join(l, sep, n) ==
    IF n > Len(l) THEN <<>>
    ELSE IF n = Len(l) THEN l[n] ELSE l[n] \o sep \o join(l, sep, n + 1)

\* The encodings the server uses for a list of candidates: the strings
\* separated by blanks in one string (a single candidate: the bare string), a
\* JSON list, and a string that holds the JSON text of the list.
Joined(l) == join(l, <<" ">>, 1)
json_dumps(l) ==
    <<"[">> \o join([n \in 1..Len(l) |-> <<"\"">> \o l[n] \o <<"\"">>], <<",", " ">>, 1)
    \o <<"]">>
Encodings == {"joined", "list", "json"}
Encoded(l, enc) ==
    CASE enc = "joined" -> Str(Joined(l))
      [] enc = "list" -> List(l)
      [] enc = "json" -> Str(json_dumps(l))

\* An externalIds object, as the list of its [name, list of candidates,
\* encoding]: one id name with any list in any encoding, or two id names with
\* one candidate each.
PurlInputs ==
    {<<[name |-> "package-url", list |-> l, enc |-> e]>> : l \in CandidateLists, e \in Encodings}
    \cup {<<[name |-> "package-url", list |-> <<c>>, enc |-> "joined"],
            [name |-> "purl", list |-> <<d>>, enc |-> "joined"]>> :
             c \in {PurlAB, PurlNoName, OpaqueId}, d \in {PurlBA, PurlNoName, OpaqueId}}
    \cup {<<[name |-> "purl", list |-> <<c>>, enc |-> "joined"]>> : c \in Candidates}

ExternalIds(input) ==
    [n \in 1..Len(input) |->
        [name |-> input[n].name, value |-> Encoded(input[n].list, input[n].enc)]]

PurlPayloads ==
    {<<ExternalIdsItem(ExternalIds(input))>> : input \in PurlInputs}
    \cup {<<TopItem("name", "acl")>>}
PurlClasses == {"Release", "Component"}

\* Release.get / Component.get of the id "a", and update of an instance.
PurlNext ==
    /\ calls < MaxPurlCalls
    /\ \/ \E cls \in PurlClasses, json \in PurlPayloads : Create(cls, <<json>>, "a", NoneRef)
       \/ \E h \in Accessible, json \in PurlPayloads : Update(h, json)

PurlSpec == Init /\ [][PurlNext]_vars

\* The calls of a state that decode externalIds: get of the id "a", update.
PurlGet(cls, json) ==
    [op |-> "create", cls |-> cls, h |-> NoneRef, json |-> <<json>>, id_ |-> "a",
     parent |-> NoneRef]
PurlUpdate(h, json) ==
    [op |-> "update", cls |-> objs[h].cls, h |-> h, json |-> <<json>>, id_ |-> NoneId,
     parent |-> NoneRef]
IdsPayload(input) == <<ExternalIdsItem(ExternalIds(input))>>

\* ------------------------------------------------------- claims C12..C16
\* Whether a list of candidates has a package URL, and the package URLs of it.
HasPurl(l) == \E n \in 1..Len(l) : l[n] \in GoodCandidates
PurlsIn(l) == {from_string(l[n]).purl : n \in {m \in 1..Len(l) : l[m] \in GoodCandidates}}
Names(input) == {input[n].name : n \in 1..Len(input)}
Consumed(input) == {input[n].name : n \in {m \in 1..Len(input) : HasPurl(input[m].list)}}

\* C12: one decode of an externalIds object onto a resource that was not
\* known before succeeds, and every id name of the object is either consumed
\* (not a key of external_ids), which it is iff one of its candidates is a
\* package URL, or a key of external_ids with its raw value; external_ids has
\* no other key, and purls are the package URLs of the candidates.
C12_PurlPartition ==
    \A cls \in PurlClasses, input \in PurlInputs :
        ~Registered(<<cls, "a">>)
        => LET w == Apply(PurlGet(cls, IdsPayload(input)))
               x == In(w, w.ret)
           IN  /\ w.err = "ok"
               /\ DOMAIN x.external_ids = Names(input) \ Consumed(input)
               /\ \A n \in 1..Len(input) :
                     input[n].name \notin Consumed(input)
                     => Holds(x.external_ids, input[n].name, ExternalIds(input)[n].value)
               /\ x.purls = UNION {PurlsIn(input[n].list) : n \in 1..Len(input)}

\* C13: after a decode of an externalIds object onto a resource, whatever was
\* decoded onto it before, no id name of which the decode took package URLs
\* into purls is a key of external_ids.
C13_NoNameInBoth ==
    \A h \in Accessible, input \in PurlInputs :
        LET w == Apply(PurlUpdate(h, IdsPayload(input)))
        IN  w.err = "ok" => Consumed(input) \cap DOMAIN w.objs[h].external_ids = {}

\* What a resource holds of the externalIds decoded onto it.
Partition(o) == [purls |-> o.purls, external_ids |-> o.external_ids]
\* The decode of a payload onto a resource nothing was decoded onto before.
Alone(cls, json) == construct(World(<<>>, EmptyMap), cls, <<json>>, "a", NoneRef, EmptyMap)

\* C14: a decode of a payload with an externalIds object onto a resource that
\* was decoded before leaves purls and external_ids as the decode of the payload
\* alone, onto a new resource, makes them.
C14_LaterDecodeAlone ==
    \A h \in Accessible, input \in PurlInputs :
        LET w == Apply(PurlUpdate(h, IdsPayload(input)))
            alone == Alone(objs[h].cls, IdsPayload(input))
        IN  w.err = "ok" => Partition(w.objs[h]) = Partition(alone.objs[alone.ret])

\* C15: a get that succeeded, made again with the same payload, returns the
\* same instance with purls and external_ids as the first get left them; and
\* a get or an update of a known resource with a payload that has no
\* externalIds leaves its purls and external_ids as they were.
C15_SameAgain ==
    /\ \A cls \in PurlClasses, json \in PurlPayloads :
          LET w1 == Apply(PurlGet(cls, json))
              w2 == construct(w1, cls, <<json>>, "a", NoneRef, EmptyMap)
          IN  w1.err = "ok"
              => /\ w2.err = "ok"
                 /\ w2.ret = w1.ret
                 /\ Partition(w2.objs[w2.ret]) = Partition(w1.objs[w1.ret])
    /\ \A cls \in PurlClasses :
          Registered(<<cls, "a">>)
          => LET w == Apply(PurlGet(cls, <<TopItem("name", "acl")>>))
                 h == all_resources[<<cls, "a">>]
             IN  w.err = "ok" /\ w.ret = h /\ Partition(w.objs[h]) = Partition(objs[h])
    /\ \A h \in Accessible :
          LET w == Apply(PurlUpdate(h, <<TopItem("name", "acl")>>))
          IN  w.err = "ok" /\ Partition(w.objs[h]) = Partition(objs[h])

\* A resource with a package URL has been got twice.
C15_Witness ==
    /\ calls = 2
    /\ last.op = "create" /\ last.err = "ok"
    /\ Len(objs) = 1
    /\ objs[1].purls # {}

\* What the decode of one id name's value onto a resource of the class makes:
\* the exception, the package URLs, and whether the name is consumed.
Outcome(cls, value) ==
    LET w == Apply(PurlGet(cls, <<ExternalIdsItem(<<[name |-> "purl.id", value |-> value]>>)>>))
    IN  IF w.err # "ok" THEN [err |-> w.err]
        ELSE [err |-> "ok", purls |-> w.objs[w.ret].purls,
              consumed |-> "purl.id" \notin DOMAIN w.objs[w.ret].external_ids]

\* C16: the encodings of a list of candidates (blank-separated string, which
\* for one candidate is the bare string; JSON list; string with the JSON text
\* of the list) give the same purls and the same decision on the id name.
C16_EncodingsAgree ==
    \A cls \in PurlClasses, l \in CandidateLists :
        \A e1 \in Encodings, e2 \in Encodings :
            Outcome(cls, Encoded(l, e1)) = Outcome(cls, Encoded(l, e2))

\* ---------------------------------------------------------- claim C21
\* C21: no call removes a key from all_resources, and no call makes a key of
\* all_resources refer to another instance than it did.
C21_RegistryKept ==
    [][\A key \in DOMAIN all_resources :
          key \in DOMAIN all_resources' /\ all_resources'[key] = all_resources[key]]_vars

\* A call that tried to take a registered key for another instance has been
\* refused, after two calls that registered instances.
C21_Witness ==
    /\ calls = 3
    /\ last.err = "Duplicate"
    /\ Cardinality(DOMAIN all_resources) >= 2

\* ============================================================== threads
\* Release(id_=i) called by concurrent threads.  A thread can be preempted
\* between any two reads or writes of all_resources, so __new__ and
\* __setattr__ are taken step by step: the membership test, the insert, the
\* read of the entry that is returned; in __init__ the assignment of the id,
\* the duplicate test and the store of self.
MaxThreads == 2
Threads == 1..MaxThreads

\* The frame of a thread: where it is, the id_ it passed, what the membership
\* test of __new__ found, the instance __new__ returned, and the exception.
Frame(id_) == [pc |-> "start", id |-> id_, absent |-> FALSE, self |-> NoneRef, err |-> "ok"]
Key(t) == <<"Release", threads[t].id>>

\* The registry is empty or has a release "a" already; each thread has its
\* id_; the application serializes constructor calls by a lock, or does not.
ThreadInit ==
    /\ \E known \in BOOLEAN :
          /\ objs = IF known THEN <<SetField(Blank("Release"), "id", "a")>> ELSE <<>>
          /\ all_resources = IF known THEN Put(EmptyMap, <<"Release", "a">>, 1) ELSE EmptyMap
    /\ held = {}
    /\ last = [op |-> "none", h |-> NoneRef, err |-> "ok"]
    /\ calls = 0
    /\ threads \in [Threads -> {Frame(i) : i \in Ids}]
    /\ lock \in {[used |-> u, owner |-> 0] : u \in BOOLEAN}
    /\ sw360 = [session |-> NoneId, force_no_session |-> FALSE]
    /\ requests = <<>>
    /\ server = EmptyMap

Goto(t, pc) == threads' = [threads EXCEPT ![t].pc = pc]
\* The lock is released when the constructor call returns or raises.
Released == IF lock.used THEN [lock EXCEPT !.owner = 0] ELSE lock

\* The lock as a bug would have it: it is taken whoever owns it.
Acquire_any(t) == lock' = [lock EXCEPT !.owner = t]

\* The application's lock: a thread waits while another thread owns it.
Acquire(t) == lock.owner = 0 /\ lock' = [lock EXCEPT !.owner = t]

\* The thread calls Release(id_=i), under the lock if the application has one.
Begin(t) ==
    /\ threads[t].pc = "start"
    /\ IF lock.used THEN Acquire(t) ELSE UNCHANGED lock
    /\ Goto(t, "new")
    /\ UNCHANGED <<objs, all_resources, held, last, calls, sw360, requests, server>>

\* __new__: if key not in cls.all_resources
NewCheck(t) ==
    /\ threads[t].pc = "new"
    /\ threads' = [threads EXCEPT ![t].absent = Key(t) \notin DOMAIN all_resources,
                                  ![t].pc = IF Key(t) \notin DOMAIN all_resources
                                            THEN "insert" ELSE "return"]
    /\ UNCHANGED <<objs, all_resources, held, last, calls, lock, sw360, requests, server>>

\* __new__: cls.all_resources[key] = super().__new__(cls)
NewInsert(t) ==
    /\ threads[t].pc = "insert"
    /\ objs' = Append(objs, Blank("Release"))
    /\ all_resources' = Put(all_resources, Key(t), Len(objs) + 1)
    /\ Goto(t, "return")
    /\ UNCHANGED <<held, last, calls, lock, sw360, requests, server>>

\* __new__: return cls.all_resources[key]
NewReturn(t) ==
    /\ threads[t].pc = "return"
    /\ threads' = [threads EXCEPT ![t].self = all_resources[Key(t)], ![t].pc = "init"]
    /\ UNCHANGED <<objs, all_resources, held, last, calls, lock, sw360, requests, server>>

\* __init__: the id comparison, then self.id = id_ up to the assignment in
\* __setattr__ (the attribute defaults before it touch no shared state but
\* self).
InitId(t) ==
    /\ threads[t].pc = "init"
    /\ LET self == objs[threads[t].self]
       IN  IF "id" \in self.has /\ self.id # threads[t].id
           THEN /\ threads' = [threads EXCEPT ![t].err = "IdMismatch", ![t].pc = "raised"]
                /\ lock' = Released
                /\ UNCHANGED objs
           ELSE /\ objs' = [objs EXCEPT ![threads[t].self] = SetField(@, "id", threads[t].id)]
                /\ Goto(t, "check")
                /\ UNCHANGED lock
    /\ UNCHANGED <<all_resources, held, last, calls, sw360, requests, server>>

\* __setattr__: if key in self.all_resources and self.all_resources[key] != self
DupCheck(t) ==
    /\ threads[t].pc = "check"
    /\ IF Key(t) \in DOMAIN all_resources /\ all_resources[Key(t)] # threads[t].self
       THEN /\ threads' = [threads EXCEPT ![t].err = "Duplicate", ![t].pc = "raised"]
            /\ lock' = Released
       ELSE Goto(t, "register") /\ UNCHANGED lock
    /\ UNCHANGED <<objs, all_resources, held, last, calls, sw360, requests, server>>

\* __setattr__: self.all_resources[key] = self, and the constructor call
\* returns (the rest of __init__ touches self only).
Register(t) ==
    /\ threads[t].pc = "register"
    /\ all_resources' = Put(all_resources, Key(t), threads[t].self)
    /\ Goto(t, "done")
    /\ lock' = Released
    /\ UNCHANGED <<objs, held, last, calls, sw360, requests, server>>

ThreadNext ==
    \E t \in Threads :
        \/ Begin(t)
        \/ NewCheck(t)
        \/ NewInsert(t)
        \/ NewReturn(t)
        \/ InitId(t)
        \/ DupCheck(t)
        \/ Register(t)

ThreadSpec == ThreadInit /\ [][ThreadNext]_vars

\* ---------------------------------------------------------- claim C22
\* Two threads that construct the same (type, id).
SameKey(t, u) == t # u /\ threads[t].id = threads[u].id

\* C22: when the application serializes the constructor calls by a lock, no
\* call raises and the calls for one (type, id) that have returned gave the
\* same instance, which is the registered one; without a lock a call either
\* returns an instance or raises the duplicate error.
C22_IdentityMapNeedsLock ==
    /\ lock.used
       => \A t \in Threads :
             /\ threads[t].err = "ok"
             /\ threads[t].pc = "done" => all_resources[Key(t)] = threads[t].self
             /\ \A u \in Threads :
                   (SameKey(t, u) /\ threads[t].pc = "done" /\ threads[u].pc = "done")
                   => threads[t].self = threads[u].self
    /\ ~lock.used
       => \A t \in Threads :
             /\ threads[t].err \in {"ok", "Duplicate"}
             /\ threads[t].pc = "done" => threads[t].self \in 1..Len(objs)

\* Without a lock, two constructor calls for one (type, id) have both returned,
\* each with an instance of its own.
C22_Witness ==
    /\ ~lock.used
    /\ \E t \in Threads, u \in Threads :
          /\ SameKey(t, u)
          /\ threads[t].pc = "done" /\ threads[u].pc = "done"
          /\ threads[t].self # threads[u].self

\* ================================================================= repr
\* Constructor calls with keyword arguments, __repr__, and the evaluation of
\* the constructor call that __repr__ prints, in up to MaxReprCalls calls.
MaxReprCalls == 2

\* The keyword parameters a class's __init__ has for its scalar attributes.
init_names(cls) ==
    CASE cls = "Release" -> {"name", "version", "downloadurl"}
      [] cls = "Attachment" -> {"attachment_type", "filename", "sha1"}
      [] cls = "Component" -> {"name", "description", "homepage", "component_type"}
      [] cls = "Project" -> {"name", "version", "description", "visibility", "project_type"}

\* __setattrdefault__(name, value) for the keyword arguments named: a value
\* that is not None is assigned, None only to an attribute that is new.
named_defaults(o, named) ==
    [o EXCEPT !.attrs =
        [x \in (DOMAIN @) \cup (DOMAIN named) |->
            IF x \in DOMAIN named /\ (named[x] # NoneId \/ x \notin DOMAIN @)
            THEN named[x] ELSE @[x]]]
named_new(w1, named) == [w1 EXCEPT !.objs[w1.ret] = named_defaults(@, named)]

\* SW360Resource.__init__: "for key, value in kwargs.items():
\* self.details[key] = value", reached when nothing was raised before.
kwargs_details(w, kwargs) ==
    IF w.err # "ok" THEN w
    ELSE [w EXCEPT !.objs[w.ret].details =
            Merge(@, [k \in DOMAIN kwargs |-> [str |-> kwargs[k]]])]

\* cls(id_=id_, **named, **kwargs), where named are keyword parameters of the
\* class's __init__ and kwargs are not.
keyword_call(w, cls, id_, named, kwargs) ==
    kwargs_details(new_init(named_new(resource_new(w, cls, NoJson, id_), named),
                            cls, NoJson, id_, NoneRef, EmptyMap),
                   kwargs)

\* The attributes __repr__ prints besides the id, in the order of __dict__
\* (the order in which the class's __init__ sets them).
repr_names(cls) ==
    CASE cls = "Attachment" -> <<"attachment_type", "filename">>
      [] cls = "Component" -> <<"name">>
      [] OTHER -> <<"name", "version">>

\* f'{v!r}' of a string, and the string a quoted literal evaluates to.
Quoted(v) == <<"'", v, "'">>
literal_eval(lit) == lit[2]

\* __repr__ from attribute n of repr_names on: "k=v!r" for every printed
\* attribute that is not None, then "id_=v!r" for the id.
RECURSIVE repr_at(_, _, _)
repr_at(o, names, n) ==
    IF n > Len(names)
    THEN IF "id" \in o.has /\ o.id # NoneId THEN <<[kw |-> "id_", lit |-> Quoted(o.id)]>> ELSE <<>>
    ELSE (IF o.attrs[names[n]] # NoneId
          THEN <<[kw |-> names[n], lit |-> Quoted(o.attrs[names[n]])]>> ELSE <<>>)
         \o repr_at(o, names, n + 1)

\* __repr__: the class name and the keyword arguments.
repr(o) == [callee |-> o.cls, args |-> repr_at(o, repr_names(o.cls), 1)]

\* The arguments of a printed call whose keyword is in the set, as a mapping.
Keywords(args) == {args[n].kw : n \in 1..Len(args)}
Argument(args, kw) == literal_eval(args[CHOOSE n \in 1..Len(args) : args[n].kw = kw].lit)
Arguments(args, kws) == [kw \in Keywords(args) \cap kws |-> Argument(args, kw)]

\* eval(text) of a printed constructor call.
eval(w, text) ==
    keyword_call(w, text.callee,
                 IF "id_" \in Keywords(text.args) THEN Argument(text.args, "id_") ELSE NoneId,
                 Arguments(text.args, init_names(text.callee)),
                 Arguments(text.args, Keywords(text.args) \ (init_names(text.callee) \cup {"id_"})))

\* The keyword by which the tests pass the id of a component or a project.
id_keyword(cls) ==
    CASE cls = "Component" -> "component_id"
      [] cls = "Project" -> "project_id"
      [] cls = "Release" -> "release_id"
      [] cls = "Attachment" -> "attachment_id"

\* The values of the keyword arguments.
Texts == {NoneId, "acl"}
NamedArgs(cls) == [{repr_names(cls)[n] : n \in 1..Len(repr_names(cls))} -> Texts]
KeywordArgs(cls) ==
    {EmptyMap} \cup {Put(EmptyMap, id_keyword(cls), i) : i \in Ids}

\* The application's constructor call with keyword arguments.
KeywordCall(cls, id_, named, kwargs) ==
    Returned("create", NoneRef, keyword_call(Now, cls, id_, named, kwargs))

\* eval(repr(h)) for an instance the application has.
Rebuild(h) == Returned("create", NoneRef, eval(Now, repr(objs[h])))

ReprNext ==
    /\ calls < MaxReprCalls
    /\ \/ \E cls \in AllClasses, id_ \in IdArgs :
            \E named \in NamedArgs(cls), kwargs \in KeywordArgs(cls) :
               KeywordCall(cls, id_, named, kwargs)
       \/ \E h \in Accessible : Rebuild(h)

ReprSpec == Init /\ [][ReprNext]_vars

\* ---------------------------------------------------------- claim C23
\* The id a constructor call gives: id_, or else the keyword of the class.
GivenId(cls, id_, kwargs) ==
    IF id_ # NoneId THEN id_
    ELSE IF id_keyword(cls) \in DOMAIN kwargs THEN kwargs[id_keyword(cls)] ELSE NoneId

\* C23: for a resource made by a constructor call with keyword arguments, the
\* evaluation of its repr succeeds and gives a resource whose id is the id
\* the call gave (as id_ or as component_id, project_id; None if it gave none)
\* and whose printed attributes (name, version; filename, attachment_type) are
\* those of the call.
C23_ReprRebuilds ==
    \A cls \in AllClasses, id_ \in IdArgs :
        \A named \in NamedArgs(cls), kwargs \in KeywordArgs(cls) :
            LET w == keyword_call(Now, cls, id_, named, kwargs)
                r == eval(w, repr(w.objs[w.ret]))
                y == r.objs[r.ret]
            IN  (w.err = "ok" /\ Len(w.objs) < MaxObj)
                => /\ r.err = "ok"
                   /\ y.id = GivenId(cls, id_, kwargs)
                   /\ \A k \in DOMAIN named :
                         named[k] # NoneId => y.attrs[k] = named[k]

\* ========================================================== REST client
\* The SW360 client of sw360_api.py against a server that holds one component:
\* login_api, close_api, api_get, api_get_raw, the flag force_no_session, and
\* update_component_external_id, in up to MaxApiCalls calls.
MaxApiCalls == 3

\* The names, values and modes of update_component_external_id.
IdNames == {"package-url", "some.id"}
IdValues == {"7105", "pkg:a/b"}
Modes == {"none", "overwrite", "delete"}
\* What the server does with a request: a positive answer, a negative one, or
\* none (the connection fails).
Answers == {"ok", "refused", "unreachable"}

Session == "Session"
LoginUrl == "resource/api/"
ComponentUrl == "resource/api/components/a"
\* A request sent on the session, or by requests.get / requests.patch.
Request(method, via, url) == [method |-> method, via |-> via, url |-> url]
Via == IF sw360.force_no_session THEN "requests" ELSE "session"

\* The component the server holds: with or without externalIds.
ServerData ==
    {[name |-> "acl"]}
    \cup {[name |-> "acl", externalIds |-> m] :
            m \in UNION {[S -> IdValues] : S \in SUBSET IdNames}}

ApiInit ==
    /\ objs = <<>>
    /\ all_resources = EmptyMap
    /\ held = {}
    /\ last = [op |-> "none", h |-> NoneRef, err |-> "ok"]
    /\ calls = 0
    /\ threads = <<>>
    /\ lock = [used |-> FALSE, owner |-> 0]
    /\ sw360 = [session |-> NoneId, force_no_session |-> FALSE]
    /\ requests = <<>>
    /\ server \in ServerData

\* A call of the client returns or raises.
Called(op, err) ==
    /\ calls' = calls + 1
    /\ last' = [op |-> op, h |-> NoneRef, err |-> err]
    /\ UNCHANGED <<objs, all_resources, held, threads, lock>>

\* lib.force_no_session = flag
SetForceNoSession(flag) ==
    /\ sw360' = [sw360 EXCEPT !.force_no_session = flag]
    /\ Called("force_no_session", "ok")
    /\ UNCHANGED <<requests, server>>

\* login_api: the session is made before the request is sent.
login_api(answer) ==
    /\ sw360' = IF sw360.force_no_session THEN sw360 ELSE [sw360 EXCEPT !.session = Session]
    /\ requests' = Append(requests, Request("GET", Via, LoginUrl))
    /\ Called("login_api", IF answer = "ok" THEN "ok" ELSE "SW360Error: Unable to login")
    /\ UNCHANGED server

\* close_api as a bug would have it: the session is closed but kept.
close_api_keep ==
    /\ sw360' = sw360
    /\ Called("close_api", "ok")
    /\ UNCHANGED <<requests, server>>

close_api ==
    /\ sw360' = [sw360 EXCEPT !.session = NoneId]
    /\ Called("close_api", "ok")
    /\ UNCHANGED <<requests, server>>

\* Whether api_get and api_get_raw refuse to send.
NotLoggedIn == ~sw360.force_no_session /\ sw360.session = NoneId
NotLoggedInError == "SW360Error: login_api needs to be called first"
\* The exception of a request, if any: requests' own when the connection
\* fails, SW360Error for a negative answer.
Failure(answer) ==
    CASE answer = "ok" -> "ok"
      [] answer = "refused" -> "SW360Error"
      [] answer = "unreachable" -> "ConnectionError"

\* api_get(url) and api_get_raw(url), which differ in what they return.
api_get(op, answer) ==
    /\ IF NotLoggedIn
       THEN Called(op, NotLoggedInError) /\ UNCHANGED requests
       ELSE /\ requests' = Append(requests, Request("GET", Via, ComponentUrl))
            /\ Called(op, Failure(answer))
    /\ UNCHANGED <<sw360, server>>

\* _update_external_ids as a bug would have it: the mode "none" updates
\* whether the id name was set or not.
update_external_ids_always(current_data, ext_id_name, ext_id_value, update_mode) ==
    LET has == "externalIds" \in DOMAIN current_data
        set == has /\ ext_id_name \in DOMAIN current_data.externalIds
        old_value == IF set THEN current_data.externalIds[ext_id_name] ELSE NoneId
        put == Put(IF has THEN current_data.externalIds ELSE EmptyMap, ext_id_name, ext_id_value)
    IN  [old_value |-> old_value,
         data |-> [externalIds |->
                     IF update_mode = "delete"
                     THEN [x \in (DOMAIN put) \ {ext_id_name} |-> put[x]]
                     ELSE put],
         update |-> \/ update_mode \in {"overwrite", "none"}
                    \/ (update_mode = "delete" /\ old_value # NoneId)]

\* _update_external_ids: (old_value, ext_id_data, update)
update_external_ids(current_data, ext_id_name, ext_id_value, update_mode) ==
    LET has == "externalIds" \in DOMAIN current_data
        set == has /\ ext_id_name \in DOMAIN current_data.externalIds
        old_value == IF set THEN current_data.externalIds[ext_id_name] ELSE NoneId
        put == Put(IF has THEN current_data.externalIds ELSE EmptyMap, ext_id_name, ext_id_value)
    IN  [old_value |-> old_value,
         data |-> [externalIds |->
                     IF update_mode = "delete"
                     THEN [x \in (DOMAIN put) \ {ext_id_name} |-> put[x]]
                     ELSE put],
         update |-> \/ update_mode = "overwrite"
                    \/ (update_mode = "none" /\ old_value = NoneId)
                    \/ (update_mode = "delete" /\ old_value # NoneId)]

\* The server's component after a PATCH with the data.
Patched(data) ==
    [k \in (DOMAIN server) \cup (DOMAIN data) |-> IF k \in DOMAIN data THEN data[k] ELSE server[k]]

\* update_component_external_id from the answer of get_component on: the
\* PATCH is sent by requests.patch, not on the session.
update_component(ret, patch) ==
    IF ret.update
    THEN /\ requests' = requests \o <<Request("GET", Via, ComponentUrl),
                                      Request("PATCH", "requests", ComponentUrl)>>
         /\ server' = IF patch = "ok" THEN Patched(ret.data) ELSE server
         /\ Called("update_component_external_id", Failure(patch))
    ELSE /\ requests' = Append(requests, Request("GET", Via, ComponentUrl))
         /\ server' = server
         /\ Called("update_component_external_id", "ok")

\* update_component_external_id(ext_id_name, ext_id_value, "a", update_mode)
update_component_external_id(ext_id_name, ext_id_value, update_mode, answer, patch) ==
    /\ IF NotLoggedIn
       THEN Called("update_component_external_id", NotLoggedInError)
            /\ UNCHANGED <<requests, server>>
       ELSE IF answer # "ok"
       THEN /\ requests' = Append(requests, Request("GET", Via, ComponentUrl))
            /\ Called("update_component_external_id", Failure(answer))
            /\ UNCHANGED server
       ELSE update_component(update_external_ids(server, ext_id_name, ext_id_value,
                                                 update_mode),
                             patch)
    /\ UNCHANGED sw360

ApiNext ==
    /\ calls < MaxApiCalls
    /\ \/ \E flag \in BOOLEAN : SetForceNoSession(flag)
       \/ \E answer \in Answers : login_api(answer)
       \/ close_api
       \/ \E answer \in Answers : api_get("api_get", answer)
       \/ \E answer \in Answers : api_get("api_get_raw", answer)
       \/ \E ext_id_name \in IdNames, ext_id_value \in IdValues, update_mode \in Modes :
            \E answer \in Answers, patch \in Answers :
               update_component_external_id(ext_id_name, ext_id_value, update_mode,
                                            answer, patch)

ApiSpec == ApiInit /\ [][ApiNext]_vars

\* ---------------------------------------------------- claims C24, C25
\* Whether the server's component has the external id, and its value (None if
\* not).
IsSet(ext_id_name) ==
    "externalIds" \in DOMAIN server /\ ext_id_name \in DOMAIN server.externalIds
OldValue(ext_id_name) == IF IsSet(ext_id_name) THEN server.externalIds[ext_id_name] ELSE NoneId

\* C24: for the component the server holds, _update_external_ids says to
\* update iff the mode is "overwrite", or "none" and the id name is not set, or
\* "delete" and the id name is set; it returns the old value (None if not
\* set); the outgoing data has the id name with the new value, or in the mode
\* "delete" not at all, and every other external id as the server has it.
C24_UpdateExternalIds ==
    \A ext_id_name \in IdNames, ext_id_value \in IdValues, update_mode \in Modes :
        LET ret == update_external_ids(server, ext_id_name, ext_id_value, update_mode)
            out == ret.data.externalIds
        IN  /\ ret.update <=> \/ update_mode = "overwrite"
                              \/ (update_mode = "none" /\ ~IsSet(ext_id_name))
                              \/ (update_mode = "delete" /\ IsSet(ext_id_name))
            /\ ret.old_value = OldValue(ext_id_name)
            /\ IF update_mode = "delete" THEN ext_id_name \notin DOMAIN out
               ELSE Holds(out, ext_id_name, ext_id_value)
            /\ DOMAIN out \ {ext_id_name} =
                  (IF "externalIds" \in DOMAIN server THEN DOMAIN server.externalIds ELSE {})
                  \ {ext_id_name}
            /\ \A other \in DOMAIN out \ {ext_id_name} : out[other] = server.externalIds[other]

\* An update has been sent and has left the server's component with one
\* external id where it had two or none.
C24_Witness ==
    /\ last.op = "update_component_external_id" /\ last.err = "ok"
    /\ requests[Len(requests)].method = "PATCH"
    /\ "externalIds" \in DOMAIN server
    /\ Cardinality(DOMAIN server.externalIds) = 1

\* C25: while force_no_session is false: api_get and api_get_raw called
\* without a session raise "login_api needs to be called first" and send no
\* request, and with a session they send the request on the session; a
\* login_api call that returns leaves a session, close_api leaves none, and no
\* other call makes or drops the session (there is none after construction).
C25_LoginFirst ==
    [][/\ (last'.op \in {"api_get", "api_get_raw"} /\ ~sw360.force_no_session)
          => IF sw360.session = NoneId
             THEN last'.err = NotLoggedInError /\ requests' = requests
             ELSE requests' = Append(requests, Request("GET", "session", ComponentUrl))
       /\ (last'.op = "login_api" /\ ~sw360.force_no_session /\ last'.err = "ok")
          => sw360'.session # NoneId
       /\ last'.op = "close_api" => sw360'.session = NoneId
       /\ last'.op \notin {"login_api", "close_api"} => sw360'.session = sw360.session
       /\ calls = 0 => sw360.session = NoneId]_vars

\* api_get or api_get_raw has been refused after a login on the session and a
\* close_api.
C25_Witness ==
    /\ calls = 3
    /\ last.op \in {"api_get", "api_get_raw"} /\ last.err = NotLoggedInError
    /\ ~sw360.force_no_session
    /\ requests = <<Request("GET", "session", LoginUrl)>>

\* ---------------------------------------------------------- claim C26
\* The registered release of the id that a project uses and that has no
\* parent: it was decoded as an entry of the project's embedded release list.
ReachedByProject(i) ==
    /\ Registered(<<"Release", i>>)
    /\ LET r == objs[all_resources[<<"Release", i>>]]
       IN  /\ r.id = i
           /\ "parent" \in r.has /\ r.parent = NoneRef
           /\ \E k \in DOMAIN r.users : objs[r.users[k]].cls = "Project"

\* C26: when sw360:releases is decoded on a component and an entry names a
\* release that was decoded before as an entry of a project's release list,
\* the decode succeeds, the component's release of that id is the registered
\* instance, its parent is the component and its users are what they were.
C26_ProjectThenComponent ==
    \A c \in Calls :
        (/\ c.op \in {"create", "update"} /\ c.cls = "Component"
         /\ Decodes(c, "releases") /\ Dispatched(c))
        => LET w == Apply(c)
               t == Target(c, w)
               list == Item(Payload(c), "releases").list
           IN  \A n \in 1..Len(list) :
                  (HasKey(list[n], "id") /\ ReachedByProject(Item(list[n], "id").id))
                  => LET i == Item(list[n], "id").id
                         r == all_resources[<<"Release", i>>]
                     IN  /\ w.err = "ok"
                         /\ w.reg[<<"Release", i>>] = r
                         /\ Holds(w.objs[t].releases, i, r)
                         /\ w.objs[r].parent = t
                         /\ w.objs[r].users = objs[r].users

\* ---------------------------------------------------------- claim C27
\* Child and back-reference agree in the interpreter's state w: a component
\* is the parent of each of its releases, and a project is, under its id, a
\* user of each of its releases and sub-projects.
Agree(w) ==
    \A h \in 1..Len(w.objs) :
        LET o == w.objs[h]
        IN  /\ o.cls = "Component" => \A r \in Range(o.releases) : w.objs[r].parent = h
            /\ o.cls = "Project"
               => \A x \in Range(o.releases) \cup Range(o.projects) :
                     Holds(w.objs[x].users, o.id, h)

\* C27: a decode (get or update) that succeeds in a state in which child and
\* back-reference agree leaves a state in which they agree.
C27_BackReferencesAgree ==
    \A c \in Calls :
        (/\ c.op \in {"create", "update"}
         /\ c.json # NoJson /\ c.parent = NoneRef
         /\ Agree(Now))
        => LET w == Apply(c) IN w.err = "ok" => Agree(w)

\* ---------------------------------------------------------- claim C28
\* C28: in every reachable state each registry entry (T, i) -> o has o an
\* instance of type T with o.id = i, so that one instance is registered
\* under at most one key.
C28_RegistryEntries ==
    \A key \in DOMAIN all_resources :
        LET o == objs[all_resources[key]]
        IN  /\ o.cls = key[1]
            /\ o.id = key[2]
            /\ \A other \in DOMAIN all_resources :
                  all_resources[other] = all_resources[key] => other = key

\* =====================================================================
\* Bare references: a resource that was decoded in full is constructed again
\* with its id only, as Component(id_=...) for a sw360:component link does.
\* =====================================================================
MaxBareCalls == 3

\* An externalIds object with a package URL and an opaque id.
BareIds ==
    ExternalIdsItem(ExternalIds(<<[name |-> "package-url", list |-> <<PurlAB>>, enc |-> "joined"],
                                  [name |-> "some.id", list |-> <<OpaqueId>>, enc |-> "joined"]>>))
BareAttachments == ListItem("attachments", <<<<SelfItem("attachments", "a")>>>>)
BareReleases == ListItem("releases", <<<<IdItem("a"), SelfItem("releases", "a")>>>>)
BareProjects == ListItem("projects", <<<<IdItem("b"), SelfItem("projects", "b")>>>>)

\* The server's answer to a get: a resource with scalar attributes, an
\* unknown key, external ids and the related resources of its class.
BareGets(cls) ==
    CASE cls = "Release" ->
            {<<TopItem("name", "acl"), TopItem("somekey", "value"), BareIds,
               ComponentItem("a"), BareAttachments>>}
      [] cls = "Component" ->
            {<<TopItem("name", "acl"), TopItem("somekey", "value"), BareIds,
               BareReleases, BareAttachments>>}
      [] cls = "Project" ->
            {<<TopItem("name", "acl"), TopItem("somekey", "value"), BareIds,
               BareReleases, BareProjects>>}
      [] OTHER -> {<<TopItem("filename", "acl.zip")>>}

\* The answers to an update: the same, or the resource under another name.
BarePayloads(cls) == BareGets(cls) \cup {<<TopItem("name", "zlib")>>}

\* cls.get(sw360, id_), the bare reference cls(id_=id_), and update.
BareNext ==
    /\ calls < MaxBareCalls
    /\ \/ \E cls \in Classes, id_ \in Ids : \E json \in BareGets(cls) :
            Create(cls, <<json>>, id_, NoneRef)
       \/ \E cls \in Classes, id_ \in Ids : Create(cls, NoJson, id_, NoneRef)
       \/ \E h \in Accessible : \E json \in BarePayloads(objs[h].cls) : Update(h, json)

BareSpec == Init /\ [][BareNext]_vars

\* ---------------------------------------------------------- claim C29
\* cls(id_=id_) with nothing else given.
Bare(cls, id_) == construct(Now, cls, NoJson, id_, NoneRef, EmptyMap)

\* C29: constructing a registered resource again with its id only leaves the
\* scalar attributes, details, external_ids, purls, attachments, releases,
\* projects, parent and users of every instance as they were, whether the
\* call returns or raises.
C29_BareReferenceKeeps ==
    \A key \in DOMAIN all_resources :
        LET w == Bare(key[1], key[2])
        IN  /\ Len(w.objs) = Len(objs)
            /\ \A h \in 1..Len(objs) : w.objs[h] = objs[h]

\* A resource was got, renamed by an update and then constructed again with
\* its id only: it has the new name and what the get decoded.
C29_Witness ==
    /\ calls = 3
    /\ last.op = "create" /\ last.err = "ok"
    /\ last.h \in Range(all_resources)
    /\ LET o == objs[last.h]
       IN  /\ o.attrs["name"] = "zlib"
           /\ o.details # EmptyMap /\ o.purls # {} /\ o.external_ids # EmptyMap
           /\ o.attachments # EmptyMap \/ o.projects # EmptyMap

\* ---------------------------------------------------------- claim C30
\* Strings that begin with "[" and are not the JSON text of an array.
Malformed ==
    {s \in {Joined(l) : l \in CandidateLists} \cup {<<"[">>, <<"[", "N", "/", "A", "]">>} :
        startswith(s, <<"[">>) /\ ~json_loads(s).ok}

\* C30: the decode of an external id whose value is a string that begins
\* with "[" and is not a valid JSON array completes without an exception and
\* stores the value as it is in external_ids under its id name.
C30_MalformedArrayKept ==
    \A cls \in PurlClasses, s \in Malformed :
        LET w == Apply(PurlGet(cls, <<ExternalIdsItem(<<[name |-> "some.id", value |-> Str(s)]>>)>>))
        IN  /\ w.err = "ok"
            /\ Holds(w.objs[w.ret].external_ids, "some.id", Str(s))

====
